---------------------------- MODULE Spec2Model ----------------------------
(***************************************************************************)
(* Model of backend/apps/marketplace/models.py: the methods of Wallet,     *)
(* Category, Product, Order and OrderItem that carry behaviour.            *)
(*                                                                         *)
(* Money is counted in hundredths (the resolution of the DecimalField      *)
(* columns, decimal_places=2), so Decimal arithmetic on such values is     *)
(* exact integer arithmetic on the counts.                                 *)
(*                                                                         *)
(* A model instance is a copy of a row held by one request handler: the    *)
(* methods work on the copy and save() writes the copy's fields to the row.*)
(***************************************************************************)
EXTENDS Integers, Sequences, FiniteSets, TLC

VARIABLES
    \* ---- Wallet: one row, one loaded instance per handler
    persisted,      \* the row's balance
    loaded,         \* loaded[h]: handler h holds an instance of the row
    balance,        \* balance[h]: self.balance of h's instance
    wcall,          \* wcall[h]: the last call made on h's instance
    ncalls,         \* ncalls[h]: calls made on h's instance, counted to 2
    \* ---- Product: one instance and its row
    stock,          \* self.stock
    stockRow,       \* the row's stock
    pcall,          \* the last call made on the product
    pprev,          \* the call before it
    \* ---- OrderItem: one instance and its row
    quantity, price, total_price,
    itemRow,        \* the row written by the last save, or NoRow
    itemClean,      \* no field was assigned since the last save
    \* ---- Order: one instance and its row
    order_number, status,
    orderRow,       \* the row written by the last save, or NoRow
    supplied,       \* the order number the instance was constructed with
    firstNumber,    \* the order number after the first save, "" before it
    \* ---- Category: the parent column of every row, one evaluation of level
    parent,         \* parent[c]: a category or None
    frames,         \* the call stack of the evaluation: the receivers of level
    ret,            \* the value returned by the innermost finished call
    estate,         \* idle | calling | returning | returned | diverged
    target,         \* the category level was read on
    parentAtCall    \* the parent column when the evaluation began

walletVars   == <<persisted, loaded, balance, wcall, ncalls>>
productVars  == <<stock, stockRow, pcall, pprev>>
itemVars     == <<quantity, price, total_price, itemRow, itemClean>>
orderVars    == <<order_number, status, orderRow, supplied, firstNumber>>
categoryVars == <<parent, frames, ret, estate, target, parentAtCall>>
vars == <<walletVars, productVars, itemVars, orderVars, categoryVars>>

\* Each record type's methods leave the other record types alone.
WalletOnly   == UNCHANGED <<productVars, itemVars, orderVars, categoryVars>>
ProductOnly  == UNCHANGED <<walletVars, itemVars, orderVars, categoryVars>>
ItemOnly     == UNCHANGED <<walletVars, productVars, orderVars, categoryVars>>
OrderOnly    == UNCHANGED <<walletVars, productVars, itemVars, categoryVars>>
CategoryOnly == UNCHANGED <<walletVars, productVars, itemVars, orderVars>>

-----------------------------------------------------------------------------
(* Bounds *)

MaxBalance == 3     \* balances explored: 0..MaxBalance hundredths
MaxAmount  == 2     \* amounts explored: -1..MaxAmount hundredths

MaxStock    == 5    \* stocks explored: -MaxStock..MaxStock
MaxQuantity == 3    \* quantities explored: -MaxQuantity..MaxQuantity

MaxItemQuantity == 3  \* item quantities explored: 0..MaxItemQuantity
MaxItemPrice    == 3  \* unit prices explored: 0..MaxItemPrice hundredths

NumUuids == 3       \* outcomes of uuid.uuid4() explored

NumCategories == 3  \* categories: 1..NumCategories
MaxDepth      == 6  \* frames of level explored before the walk is given up

Handlers   == {"h1", "h2"}
Amounts    == -1..MaxAmount
Quantities == (0 - MaxQuantity)..MaxQuantity

-----------------------------------------------------------------------------
(* Wallet *)

\* A call on an instance: the method and its argument, self.balance before it
\* (pre), what the caller got (res), whether save() ran (saved), and the row's
\* balance before the call and when it returned.
NoCall == [op |-> "none", amount |-> 0, pre |-> 0, res |-> "none", saved |-> FALSE,
           rowBefore |-> 0, rowAfter |-> 0]

\* What a method leaves: self.balance, what the caller gets, whether save() ran.
Outcome(b, r, s) == [balance |-> b, res |-> r, saved |-> s]

\* Faulty variants of can_afford: a strict comparison; no comparison at all.
can_afford_strict(b, amount) == b > amount

can_afford_always(b, amount) == TRUE

can_afford(b, amount) == b >= amount

\* Faulty variant of add_funds: zero passes the validation.
add_funds_zero_allowed(b, amount) ==
    IF amount < 0
    THEN Outcome(b, "ValueError", FALSE)
    ELSE Outcome(b + amount, "None", TRUE)

add_funds(b, amount) ==
    IF amount <= 0
    THEN Outcome(b, "ValueError", FALSE)
    ELSE Outcome(b + amount, "None", TRUE)

deduct_funds(b, amount) ==
    IF amount <= 0
    THEN Outcome(b, "ValueError", FALSE)
    ELSE IF ~can_afford(b, amount)
         THEN Outcome(b, "False", FALSE)
         ELSE Outcome(b - amount, "True", TRUE)

\* Variant of save(): an atomic update of the row by the instance's change.
WalletSaveDelta(row, before, after) == row + (after - before)

\* save() writes the instance's balance over the row's, whatever the row holds.
WalletSave(row, before, after) == after

\* Wallet.objects.get(...): h gets a fresh instance of the row.
WalletLoad(h) ==
    /\ loaded'  = [loaded EXCEPT ![h] = TRUE]
    /\ balance' = [balance EXCEPT ![h] = persisted]
    /\ wcall'   = [wcall EXCEPT ![h] = NoCall]
    /\ ncalls'  = [ncalls EXCEPT ![h] = 0]
    /\ UNCHANGED persisted
    /\ WalletOnly

\* One whole call of a method on h's instance, its save() included.
WalletCall(h, op, amount, out) ==
    /\ loaded[h]
    /\ out.balance <= MaxBalance
    /\ balance' = [balance EXCEPT ![h] = out.balance]
    /\ persisted' = IF out.saved
                    THEN WalletSave(persisted, balance[h], out.balance)
                    ELSE persisted
    /\ wcall'   = [wcall EXCEPT ![h] =
                     [op |-> op, amount |-> amount, pre |-> balance[h],
                      res |-> out.res, saved |-> out.saved,
                      rowBefore |-> persisted, rowAfter |-> persisted']]
    /\ ncalls'  = [ncalls EXCEPT ![h] = IF @ < 2 THEN @ + 1 ELSE 2]
    /\ UNCHANGED loaded
    /\ WalletOnly

CallAddFunds(h, amount) ==
    WalletCall(h, "add_funds", amount, add_funds(balance[h], amount))

CallDeductFunds(h, amount) ==
    WalletCall(h, "deduct_funds", amount, deduct_funds(balance[h], amount))

WalletInit(balances) ==
    /\ persisted \in balances
    /\ loaded  = [h \in Handlers |-> FALSE]
    /\ balance = [h \in Handlers |-> 0]
    /\ wcall   = [h \in Handlers |-> NoCall]
    /\ ncalls  = [h \in Handlers |-> 0]

NextWallet ==
    \E h \in Handlers :
        \/ WalletLoad(h)
        \/ \E amount \in Amounts : CallAddFunds(h, amount)
        \/ \E amount \in Amounts : CallDeductFunds(h, amount)

-----------------------------------------------------------------------------
(* Product *)

NoStockCall == [op |-> "none", quantity |-> 0, pre |-> 0, preRow |-> 0,
                res |-> "none", saved |-> FALSE]

\* What a method leaves: self.stock, what the caller gets, whether save() ran.
StockOutcome(s, r, sv) == [stock |-> s, res |-> r, saved |-> sv]

\* Faulty variant of decrease_stock: a strict comparison.
decrease_stock_strict(s, q) ==
    IF s > q
    THEN StockOutcome(s - q, "True", TRUE)
    ELSE StockOutcome(s, "False", FALSE)

decrease_stock(s, q) ==
    IF s >= q
    THEN StockOutcome(s - q, "True", TRUE)
    ELSE StockOutcome(s, "False", FALSE)

increase_stock(s, q) == StockOutcome(s + q, "None", TRUE)

\* save() of a PositiveIntegerField: a value >= 0 is written; a negative one is
\* written or refused (IntegrityError) as the database backend decides.
StockRowsAfterSave(row, s) == IF s >= 0 THEN {s} ELSE {s, row}

\* One whole call of a method on the product, its save() included.
ProductCall(op, q, out) ==
    /\ out.stock \in (0 - MaxStock)..MaxStock
    /\ stock' = out.stock
    /\ pprev' = pcall
    /\ ProductOnly
    /\ IF out.saved
       THEN \E row \in StockRowsAfterSave(stockRow, out.stock) :
              /\ stockRow' = row
              /\ pcall' = [op |-> op, quantity |-> q, pre |-> stock,
                           preRow |-> stockRow, saved |-> TRUE,
                           res |-> IF row = out.stock THEN out.res
                                   ELSE "IntegrityError"]
       ELSE /\ stockRow' = stockRow
            /\ pcall' = [op |-> op, quantity |-> q, pre |-> stock,
                         preRow |-> stockRow, saved |-> FALSE, res |-> out.res]

CallDecreaseStock(q) == ProductCall("decrease_stock", q, decrease_stock(stock, q))

CallIncreaseStock(q) == ProductCall("increase_stock", q, increase_stock(stock, q))

ProductInit(stocks) ==
    /\ stock \in stocks
    /\ stockRow = stock
    /\ pcall = NoStockCall
    /\ pprev = NoStockCall

NextProduct ==
    \/ \E q \in Quantities : CallDecreaseStock(q)
    \/ \E q \in Quantities : CallIncreaseStock(q)

-----------------------------------------------------------------------------
(* OrderItem *)

ItemQuantities == 0..MaxItemQuantity
ItemPrices     == 0..MaxItemPrice
ItemTotals     == 0..(MaxItemQuantity * MaxItemPrice)

NoItemRow == [exists |-> FALSE, quantity |-> 0, price |-> 0, total_price |-> 0]

\* Faulty variant of save(): the total is computed only when none is set.
item_total_if_unset(q, p, t) == IF t = 0 THEN q * p ELSE t

\* The total_price save() leaves, given the instance's fields.
item_total(q, p, t) == q * p

\* The caller assigns a field of the instance.
SetQuantity(q) ==
    /\ quantity' = q
    /\ itemClean' = FALSE
    /\ UNCHANGED <<price, total_price, itemRow>>
    /\ ItemOnly

SetPrice(p) ==
    /\ price' = p
    /\ itemClean' = FALSE
    /\ UNCHANGED <<quantity, total_price, itemRow>>
    /\ ItemOnly

SetTotalPrice(t) ==
    /\ total_price' = t
    /\ itemClean' = FALSE
    /\ UNCHANGED <<quantity, price, itemRow>>
    /\ ItemOnly

\* OrderItem.save(): the total is recomputed, then every field is written.
ItemSave ==
    /\ total_price' = item_total(quantity, price, total_price)
    /\ itemRow' = [exists |-> TRUE, quantity |-> quantity, price |-> price,
                   total_price |-> total_price']
    /\ itemClean' = TRUE
    /\ UNCHANGED <<quantity, price>>
    /\ ItemOnly

ItemInit(quantities, prices, totals) ==
    /\ quantity \in quantities
    /\ price \in prices
    /\ total_price \in totals
    /\ itemRow = NoItemRow
    /\ itemClean = FALSE

NextItem ==
    \/ \E q \in ItemQuantities : SetQuantity(q)
    \/ \E p \in ItemPrices : SetPrice(p)
    \/ \E t \in ItemTotals : SetTotalPrice(t)
    \/ ItemSave

-----------------------------------------------------------------------------
(* Order *)

Statuses == {"pending", "paid", "shipped", "delivered", "canceled", "refunded"}

SuppliedNumbers == {"", "A-1", "A-2"}

\* uuid.uuid4(): 32 hexadecimal digits.
Uuids == {[i \in 1..32 |-> (i * k) % 16] : k \in 1..NumUuids}

HexDigits == <<"0", "1", "2", "3", "4", "5", "6", "7",
               "8", "9", "a", "b", "c", "d", "e", "f">>

\* str.upper() on one character.
Upper(ch) ==
    CASE ch = "a" -> "A" [] ch = "b" -> "B" [] ch = "c" -> "C"
      [] ch = "d" -> "D" [] ch = "e" -> "E" [] ch = "f" -> "F"
      [] OTHER -> ch

\* UUID.hex: the digits as lower-case characters.
Hex(u) == [i \in 1..Len(u) |-> HexDigits[u[i] + 1]]

RECURSIVE Join(_)
Join(chars) == IF chars = <<>> THEN "" ELSE Head(chars) \o Join(Tail(chars))

\* f"ORD-{uuid.uuid4().hex[:8].upper()}"
GenerateOrderNumber(u) ==
    LET first8 == SubSeq(Hex(u), 1, 8)
    IN  "ORD-" \o Join([i \in 1..Len(first8) |-> Upper(first8[i])])

\* Faulty variant of save(): a number is generated on every save.
order_number_regenerated(n, u) == GenerateOrderNumber(u)

\* The order_number Order.save() leaves: generated only when it is falsy.
order_number_on_save(n, u) == IF n = "" THEN GenerateOrderNumber(u) ELSE n

NoOrderRow == [saves |-> 0, order_number |-> "", status |-> "pending"]

\* Order(order_number=n): a new, unsaved instance.
NewOrder(n) ==
    /\ order_number' = n
    /\ supplied' = n
    /\ status' = "pending"
    /\ orderRow' = NoOrderRow
    /\ firstNumber' = ""
    /\ OrderOnly

\* The caller assigns status.
SetStatus(st) ==
    /\ status' = st
    /\ UNCHANGED <<order_number, supplied, orderRow, firstNumber>>
    /\ OrderOnly

\* Order.save(), with u the uuid drawn if one is needed. saves counts to 2.
OrderSave(u) ==
    /\ order_number' = order_number_on_save(order_number, u)
    /\ orderRow' = [saves |-> IF orderRow.saves < 2 THEN orderRow.saves + 1 ELSE 2,
                    order_number |-> order_number', status |-> status]
    /\ firstNumber' = IF orderRow.saves = 0 THEN order_number' ELSE firstNumber
    /\ UNCHANGED <<status, supplied>>
    /\ OrderOnly

OrderInit(numbers) ==
    /\ order_number \in numbers
    /\ supplied = order_number
    /\ status = "pending"
    /\ orderRow = NoOrderRow
    /\ firstNumber = ""

NextOrder ==
    \/ \E n \in SuppliedNumbers : NewOrder(n)
    \/ \E st \in Statuses : SetStatus(st)
    \/ \E u \in Uuids : OrderSave(u)

-----------------------------------------------------------------------------
(* Category *)

Categories == 1..NumCategories
NoParent   == 0

\* Variant of is_root: a category that is its own parent counts as a root.
is_root_or_own_parent(c) == parent[c] = NoParent \/ parent[c] = c

is_root(c) == parent[c] = NoParent

\* Faulty variant of level: the parent's level is returned as it is.
level_of_child_same(v) == v

\* level of a non-root: what the call on the parent returned, plus one.
level_of_child(v) == v + 1

Evaluating == estate \in {"calling", "returning"}

\* The caller assigns parent and saves; nothing checks for a cycle.
SetParent(c, p) ==
    /\ ~Evaluating
    /\ parent' = [parent EXCEPT ![c] = p]
    /\ parentAtCall' = parent'
    /\ estate' = "idle"
    /\ frames' = <<>>
    /\ ret' = 0
    /\ target' = NoParent
    /\ CategoryOnly

\* The caller reads c.level.
ReadLevel(c) ==
    /\ ~Evaluating
    /\ estate' = "calling"
    /\ frames' = <<c>>
    /\ target' = c
    /\ ret' = 0
    /\ parentAtCall' = parent
    /\ UNCHANGED parent
    /\ CategoryOnly

\* The innermost call of level runs to its return or to its call on the parent.
LevelEnter ==
    /\ estate = "calling"
    /\ LET c == frames[Len(frames)]
       IN  IF is_root(c)
           THEN /\ ret' = 0
                /\ estate' = "returning"
                /\ UNCHANGED frames
           ELSE IF Len(frames) >= MaxDepth
                THEN /\ estate' = "diverged"
                     /\ UNCHANGED <<frames, ret>>
                ELSE /\ frames' = Append(frames, parent[c])
                     /\ UNCHANGED <<estate, ret>>
    /\ UNCHANGED <<parent, target, parentAtCall>>
    /\ CategoryOnly

\* The innermost call returns ret: to the caller, or to the call below it.
LevelReturn ==
    /\ estate = "returning"
    /\ frames' = SubSeq(frames, 1, Len(frames) - 1)
    /\ IF Len(frames) = 1
       THEN /\ estate' = "returned"
            /\ UNCHANGED ret
       ELSE /\ ret' = level_of_child(ret)
            /\ UNCHANGED estate
    /\ UNCHANGED <<parent, target, parentAtCall>>
    /\ CategoryOnly

CategoryInit ==
    /\ parent = [c \in Categories |-> NoParent]
    /\ parentAtCall = parent
    /\ estate = "idle"
    /\ frames = <<>>
    /\ ret = 0
    /\ target = NoParent

NextCategory ==
    \/ \E c \in Categories : \E p \in Categories \cup {NoParent} : SetParent(c, p)
    \/ \E c \in Categories : ReadLevel(c)
    \/ LevelEnter
    \/ LevelReturn

-----------------------------------------------------------------------------
(* Specifications: one per record type, the other records at rest *)

WalletRest   == WalletInit({0})
ProductRest  == ProductInit({0})
ItemRest     == ItemInit({1}, {0}, {0})
OrderRest    == OrderInit({""})
CategoryRest == CategoryInit

InitWallet ==
    /\ WalletInit(0..MaxBalance)
    /\ ProductRest /\ ItemRest /\ OrderRest /\ CategoryRest

SpecWallet == InitWallet /\ [][NextWallet]_vars

InitProduct ==
    /\ ProductInit(0..MaxStock)
    /\ WalletRest /\ ItemRest /\ OrderRest /\ CategoryRest

SpecProduct == InitProduct /\ [][NextProduct]_vars

InitItem ==
    /\ ItemInit(ItemQuantities, ItemPrices, ItemTotals)
    /\ WalletRest /\ ProductRest /\ OrderRest /\ CategoryRest

SpecItem == InitItem /\ [][NextItem]_vars

InitOrder ==
    /\ OrderInit(SuppliedNumbers)
    /\ WalletRest /\ ProductRest /\ ItemRest /\ CategoryRest

SpecOrder == InitOrder /\ [][NextOrder]_vars

InitCategory ==
    /\ CategoryInit
    /\ WalletRest /\ ProductRest /\ ItemRest /\ OrderRest

SpecCategory == InitCategory /\ [][NextCategory]_vars

\* A call of level, once begun, runs on: the evaluation is synchronous.
FairSpecCategory ==
    SpecCategory /\ WF_vars(LevelEnter) /\ WF_vars(LevelReturn)

Init ==
    /\ WalletInit(0..MaxBalance)
    /\ ProductInit(0..MaxStock)
    /\ ItemInit(ItemQuantities, ItemPrices, ItemTotals)
    /\ OrderInit(SuppliedNumbers)
    /\ CategoryInit

Next == NextWallet \/ NextProduct \/ NextItem \/ NextOrder \/ NextCategory

Spec == Init /\ [][Next]_vars

-----------------------------------------------------------------------------
(* Properties of Wallet, under SpecWallet *)

DeductCalls(h) == wcall[h].op = "deduct_funds"

\* C1: a call deduct_funds(a) with a > 0 on an instance with balance b returns
\* true iff b >= a; then the instance's balance is b - a and b - a is what the
\* row holds when the call returns. When b < a it returns false, the instance's
\* balance is still b, save() did not run and the row is as it was.
C1_DeductFunds ==
    \A h \in Handlers :
        (DeductCalls(h) /\ wcall[h].amount > 0) =>
            LET b == wcall[h].pre
                a == wcall[h].amount
            IN  /\ (wcall[h].res = "True") <=> (b >= a)
                /\ (b >= a) => /\ balance[h] = b - a
                               /\ wcall[h].saved
                               /\ wcall[h].rowAfter = b - a
                /\ (b < a) => /\ wcall[h].res = "False"
                              /\ balance[h] = b
                              /\ ~wcall[h].saved
                              /\ wcall[h].rowAfter = wcall[h].rowBefore

\* The whole balance was deducted: deduct_funds(b) on balance b > 0 gave true
\* and balance 0.
C1_Witness_FullDeduct ==
    \E h \in Handlers :
        /\ DeductCalls(h) /\ wcall[h].res = "True"
        /\ wcall[h].pre = MaxAmount /\ wcall[h].amount = MaxAmount
        /\ balance[h] = 0 /\ persisted = 0

\* C2: add_funds(a) and deduct_funds(a) with a <= 0 raise ValueError; the
\* instance's balance is what it was, save() did not run, the row is as it was.
C2_InvalidAmount ==
    \A h \in Handlers :
        (wcall[h].op \in {"add_funds", "deduct_funds"} /\ wcall[h].amount <= 0) =>
            /\ wcall[h].res = "ValueError"
            /\ balance[h] = wcall[h].pre
            /\ ~wcall[h].saved
            /\ wcall[h].rowAfter = wcall[h].rowBefore

\* add_funds(0) was refused on one instance, deduct_funds(-1) on another whose
\* balance is positive.
C2_Witness_BothRefused ==
    \E h, g \in Handlers :
        /\ wcall[h].op = "add_funds" /\ wcall[h].amount = 0
        /\ wcall[h].res = "ValueError"
        /\ wcall[g].op = "deduct_funds" /\ wcall[g].amount = -1
        /\ wcall[g].res = "ValueError" /\ balance[g] > 0

\* C3: the row's balance and the balance of every loaded instance are >= 0.
C3_BalanceNonNegative ==
    /\ persisted >= 0
    /\ \A h \in Handlers : loaded[h] => balance[h] >= 0

\* A deduction was made from an instance that no longer matched the row (the
\* row could not afford it), and another handler made an invalid call.
C3_Witness_StaleDeduct ==
    \E h, g \in Handlers :
        /\ h # g
        /\ DeductCalls(h) /\ wcall[h].res = "True"
        /\ wcall[h].rowBefore < wcall[h].amount
        /\ wcall[g].res = "ValueError"

\* C4: deduct_funds checks and subtracts on the instance and save() writes the
\* result over the row: after a deduction that returned true the row holds the
\* instance's balance before the call minus the amount, whatever the row held.
C4_DeductNotAtomic ==
    \A h \in Handlers :
        (DeductCalls(h) /\ wcall[h].res = "True") =>
            /\ wcall[h].amount <= wcall[h].pre
            /\ wcall[h].rowAfter = wcall[h].pre - wcall[h].amount

\* The overdraw: two handlers each loaded balance b and made one call,
\* deduct_funds(a1) and deduct_funds(a2) with a1 <= b, a2 <= b, a1 + a2 > b;
\* both returned true and both saved, the second over the first.
C4_Witness_Overdraw ==
    \E h, g \in Handlers :
        /\ h # g
        /\ ncalls[h] = 1 /\ ncalls[g] = 1
        /\ DeductCalls(h) /\ wcall[h].res = "True" /\ wcall[h].saved
        /\ DeductCalls(g) /\ wcall[g].res = "True" /\ wcall[g].saved
        /\ wcall[h].pre = wcall[g].pre
        /\ wcall[h].rowBefore = wcall[h].pre
        /\ wcall[g].rowBefore = wcall[h].rowAfter
        /\ wcall[h].amount <= wcall[h].pre
        /\ wcall[g].amount <= wcall[g].pre
        /\ wcall[h].amount + wcall[g].amount > wcall[h].pre
        /\ persisted = wcall[g].pre - wcall[g].amount

-----------------------------------------------------------------------------
(* Properties of Product, under SpecProduct *)

\* C5: a call decrease_stock(q) on stock s returns true iff s >= q; then the
\* stock is s - q and it is saved. When s < q it returns false, the stock is
\* still s, save() did not run and the row is as it was.
C5_DecreaseStock ==
    (pcall.op = "decrease_stock") =>
        LET s == pcall.pre
            q == pcall.quantity
        IN  /\ (pcall.res = "True") <=> (s >= q)
            /\ (s >= q) => /\ stock = s - q
                           /\ pcall.saved
                           /\ stockRow = s - q
            /\ (s < q) => /\ pcall.res = "False"
                          /\ stock = s
                          /\ ~pcall.saved
                          /\ stockRow = pcall.preRow

\* From stock 5, decrease_stock(3) gave true and stock 2, and decrease_stock(3)
\* again gave false with the stock still 2.
C5_Witness_Scenario ==
    /\ pprev.op = "decrease_stock" /\ pprev.pre = 5 /\ pprev.quantity = 3
    /\ pprev.res = "True"
    /\ pcall.op = "decrease_stock" /\ pcall.pre = 2 /\ pcall.quantity = 3
    /\ pcall.res = "False"
    /\ stock = 2 /\ stockRow = 2

\* C6: the stock is >= 0 after any calls of decrease_stock and increase_stock.
C6_StockNonNegative == stock >= 0

-----------------------------------------------------------------------------
(* Properties of OrderItem, under SpecItem *)

\* C7: after every save total_price is quantity * price, on the instance and
\* in the row, whatever total_price was before; and save changes neither
\* quantity nor price.
C7_TotalDerived ==
    [][ /\ itemClean' =>
              /\ total_price' = quantity' * price'
              /\ itemRow' = [exists |-> TRUE, quantity |-> quantity',
                             price |-> price', total_price |-> quantity' * price']
        /\ (itemClean' /\ ~itemClean) =>
              /\ quantity' = quantity
              /\ price' = price ]_vars

\* A saved item of quantity 2 at unit price 3 whose total is 6.
C7_Witness_Saved ==
    /\ itemClean /\ itemRow.exists
    /\ quantity = 2 /\ price = 3 /\ total_price = 6
    /\ itemRow.total_price = 6

-----------------------------------------------------------------------------
(* Properties of Order, under SpecOrder *)

GeneratedNumbers == {GenerateOrderNumber(u) : u \in Uuids}

\* C8: once an order was saved its order number is not empty and is the one
\* the first save left, on the instance and in the row: the number the order
\* was constructed with if there was one, a generated number otherwise.
C8_OrderNumberStable ==
    (orderRow.saves > 0) =>
        /\ order_number # ""
        /\ order_number = firstNumber
        /\ orderRow.order_number = firstNumber
        /\ (supplied # "") => order_number = supplied
        /\ (supplied = "") => order_number \in GeneratedNumbers

\* An order constructed without a number, saved at least twice, its status
\* changed on the way, that still has the number generated from the uuid
\* 2468ace0...
C8_Witness_SavedTwice ==
    /\ orderRow.saves = 2
    /\ supplied = ""
    /\ orderRow.status = "shipped"
    /\ order_number = "ORD-2468ACE0"

-----------------------------------------------------------------------------
(* Properties of Category, under SpecCategory and FairSpecCategory *)

\* The categories met by following parent from c, in at most n steps.
RECURSIVE ChainFrom(_, _)
ChainFrom(c, n) ==
    IF n = 0 \/ parent[c] = NoParent
    THEN {}
    ELSE {parent[c]} \cup ChainFrom(parent[c], n - 1)

Ancestors(c) == ChainFrom(c, NumCategories)

ReachesRoot(c) == \E a \in {c} \cup Ancestors(c) : parent[a] = NoParent

WellFormed == \A c \in Categories : ReachesRoot(c)

\* C9: in a forest without cycles, reading level changes no parent, never
\* walks deeper than the categories there are, and returns the number of
\* ancestors: 0 exactly for a root, 1 + the parent's number otherwise.
C9_LevelIsDepth ==
    /\ (estate # "idle") => parent = parentAtCall
    /\ (WellFormed /\ estate # "idle") =>
          /\ estate # "diverged"
          /\ Len(frames) <= NumCategories
    /\ (WellFormed /\ estate = "returned") =>
          /\ ret = Cardinality(Ancestors(target))
          /\ (parent[target] = NoParent) <=> (ret = 0)
          /\ (parent[target] # NoParent) =>
                ret = 1 + Cardinality(Ancestors(parent[target]))

\* level returned 2 on a grandchild of a root.
C9_Witness_Grandchild ==
    /\ WellFormed /\ estate = "returned" /\ ret = 2
    /\ parent[target] # NoParent
    /\ parent[parent[target]] # NoParent
    /\ parent[parent[parent[target]]] = NoParent

\* What holds of every state of an evaluation of level: it has returned only
\* if the chain reaches a root; on a chain into a cycle no frame is a root and
\* the walk is still going or was given up at MaxDepth; on a chain that
\* reaches a root the walk is no deeper than the chain.
C10_Safety ==
    (estate # "idle") =>
        /\ (estate = "returned") => ReachesRoot(target)
        /\ ~ReachesRoot(target) =>
              /\ estate \in {"calling", "diverged"}
              /\ \A i \in 1..Len(frames) : parent[frames[i]] # NoParent
        /\ (estate = "diverged") =>
              /\ ~ReachesRoot(target)
              /\ Len(frames) = MaxDepth
        /\ ReachesRoot(target) =>
              Len(frames) <= 1 + Cardinality(Ancestors(target))

\* C10: level has no cycle guard: it returns a value if and only if following
\* parent from the category reaches a category whose parent is unset. On a
\* chain that leads into a cycle (a category that is its own parent included)
\* the call never returns: the recursion goes on, past the number of
\* categories, until the depth explored is exhausted.
C10_LevelReturnsIffRooted ==
    /\ []C10_Safety
    /\ (estate = "calling" /\ ReachesRoot(target)) ~> (estate = "returned")
    /\ (estate = "calling" /\ ~ReachesRoot(target)) ~> (estate = "diverged")

\* level was read on a category outside the cycle its chain leads into, and
\* the walk was given up after going round the cycle.
C10_Witness_IntoCycle ==
    /\ estate = "diverged"
    /\ target \notin Ancestors(target)
    /\ ~ReachesRoot(target)
    /\ Len(frames) > NumCategories

=============================================================================
